---- MODULE Spec2Model ----
(***************************************************************************)
(* Model of src/metal_oxide.py: Particle and SelfAssemblyModel.            *)
(*                                                                         *)
(* Numbers.  Positions, velocities, length, width, x_p and sigma are       *)
(* integer-valued reals (Python does exact arithmetic on them).  The rate  *)
(* quantities k0, alpha, f_x, P and the random draw r are fixed-point      *)
(* numbers in units of 1/One, and math.exp is computed on them by its      *)
(* power series; like the float version it returns exactly 1 at 0 and      *)
(* rounds to 0 for very negative arguments.                                *)
(***************************************************************************)
EXTENDS Integers, Sequences, FiniteSets

VARIABLES width, length, k0, alpha, x_p, sigma, velocity_mag,
          particles, time,
          N,        \* the constructor's argument N (not kept by the code)
          nsteps,   \* the number of step() calls made
          exc,      \* the exception the last step() call raised
          draws,    \* the particles that took a random.random() value in
                    \* the last step() call, in the order of the calls
          probe     \* the results of the last direct correction_factor calls

vars == <<width, length, k0, alpha, x_p, sigma, velocity_mag,
          particles, time, N, nsteps, exc, draws, probe>>

\* ---------------------------------------------------------------- bounds
MaxTime == 3
One == 1000
\* the significant bits of a float in the direct correction_factor calls
MantBits == 5

\* --------------------------------------------------- program constants
\* Particle.transformation_time = None
None == -1
\* the literals of the bouncing code: `self.x > 10`, `self.y > 1`
XBound == 10
YBound == 1

\* ------------------------------------------------------------ arithmetic
max(a, b) == IF a >= b THEN a ELSE b
min(a, b) == IF a <= b THEN a ELSE b

RECURSIVE Pow2(_)
Pow2(n) == IF n = 0 THEN 1 ELSE 2 * Pow2(n - 1)

RECURSIVE Ulp(_, _)
\* the spacing of the floats around a >= 0: the least u, from u up, with
\* a < 2^MantBits * u
Ulp(a, u) == IF a < Pow2(MantBits) * u THEN u ELSE Ulp(a, 2 * u)

\* the float nearest to v, ties to the even mantissa
RoundF(v) ==
    LET a == IF v < 0 THEN -v ELSE v
        u == Ulp(a, 1)
        q == a \div u
        up == 2 * (a % u) > u \/ (2 * (a % u) = u /\ q % 2 = 1)
        m == (IF up THEN q + 1 ELSE q) * u
    IN  IF v < 0 THEN -m ELSE m

\* a + b and a - b on floats
FloatAdd(a, b) == RoundF(a + b)
FloatSub(a, b) == RoundF(a - b)

RECURSIVE ExpSeries(_, _, _, _)
\* sum of z^k / k! in fixed point, from the k-th term `term` on
ExpSeries(z, k, term, acc) ==
    IF term = 0 THEN acc
    ELSE ExpSeries(z, k + 1, (term * z) \div (k * One), acc + term)

\* math.exp(a) for a fixed-point a; arguments below -7 round to 0
exp(a) ==
    IF a >= 0 THEN ExpSeries(a, 1, One, 0)
    ELSE IF a <= -(7 * One) THEN 0
    ELSE (One * One) \div ExpSeries(-a, 1, One, 0)

\* -------------------------------------------------------------- Particle
\* Particle.__init__
Particle(x, y, velocity) ==
    [x |-> x, y |-> y, state |-> "unassembled",
     transformation_time |-> None, velocity |-> velocity]

\* P = 1 - math.exp(-k0 * f_x * t**2)
TransformProb(t, k, f_x) == One - exp(((-k * f_x) \div One) * (t * t))

Transforms_AtEqual(r, P) == r <= P
\* random.random() < P
Transforms(r, P) == r < P

Transform_PrevTime(p, t) ==
    [p EXCEPT !.state = "assembled", !.transformation_time = t - 1]

Transform_StateOnly(p, t) == [p EXCEPT !.state = "assembled"]
\* self.state = "assembled"; self.transformation_time = t
Transform(p, t) ==
    [p EXCEPT !.state = "assembled", !.transformation_time = t]

\* the bouncing on the x axis, after the move
BounceX(p) ==
    IF p.x < 0 \/ p.x > XBound
    THEN [p EXCEPT !.velocity = <<-p.velocity[1], p.velocity[2]>>,
                   !.x = max(0, min(p.x, XBound))]
    ELSE p

\* the bouncing on the y axis, after the move
BounceY(p) ==
    IF p.y < 0 \/ p.y > YBound
    THEN [p EXCEPT !.velocity = <<p.velocity[1], -p.velocity[2]>>,
                   !.y = max(0, min(p.y, YBound))]
    ELSE p

\* the body of the second `if self.state == "unassembled"`
Move(p) ==
    BounceY(BounceX([p EXCEPT !.x = p.x + p.velocity[1],
                              !.y = p.y + p.velocity[2]]))

Check_WrongState(p, t, k, f_x, r) ==
    IF p.state = "assembled" /\ Transforms(r, TransformProb(t, k, f_x))
    THEN Transform(p, t)
    ELSE p

\* the first `if`: the Avrami check with the draw r
Check(p, t, k, f_x, r) ==
    IF p.state = "unassembled" /\ Transforms(r, TransformProb(t, k, f_x))
    THEN Transform(p, t)
    ELSE p

Update_Reevaluate(p, t, k, f_x, r) ==
    LET q == IF Transforms(r, TransformProb(t, k, f_x))
             THEN Transform(p, t) ELSE p
    IN  IF q.state = "unassembled" THEN Move(q) ELSE q

Update_AlwaysMove(p, t, k, f_x, r) ==
    IF p.state = "unassembled" /\ Transforms(r, TransformProb(t, k, f_x))
    THEN Transform(p, t)
    ELSE Move(p)

Update_MoveFirst(p, t, k, f_x, r) ==
    IF p.state = "unassembled" THEN Check(Move(p), t, k, f_x, r) ELSE p

\* Particle.update(t, k0, f_x), r being the value random.random() returns
\* when the particle is unassembled on entry
Update(p, t, k, f_x, r) ==
    LET q == Check(p, t, k, f_x, r)
    IN  IF q.state = "unassembled" THEN Move(q) ELSE q

\* ----------------------------------------------------- SelfAssemblyModel
correction_factor_NoSquare(x) ==
    One + (alpha * exp(-(((x - x_p) * One) \div (2 * sigma * sigma))))
            \div One

\* 1 + alpha * exp(-((x - x_p)**2) / (2 * sigma**2)); sigma # 0
correction_factor(x) ==
    One + (alpha * exp(-(((x - x_p) * (x - x_p) * One)
                                \div (2 * sigma * sigma)))) \div One

NextTime_Skip(t) == t + 2
\* self.time += 1
NextTime(t) == t + 1

LoopBody_StaleTime(ps, i, t, r) ==
    [ps EXCEPT ![i] = Update(ps[i], t - 1, k0, correction_factor(ps[i].x), r)]

LoopBody_FirstX(ps, i, t, r) ==
    [ps EXCEPT ![i] = Update(ps[i], t, k0, correction_factor(ps[1].x), r)]

\* the body of the loop of step() for the particle at index i, r being the
\* next value of the random stream
LoopBody(ps, i, t, r) ==
    [ps EXCEPT ![i] = Update(ps[i], t, k0, correction_factor(ps[i].x), r)]

RECURSIVE StepLoop_DrawAlways(_, _, _, _, _)
StepLoop_DrawAlways(ps, i, t, stream, log) ==
    IF i > Len(ps) THEN [particles |-> ps, draws |-> log]
    ELSE StepLoop_DrawAlways(LoopBody(ps, i, t, stream[Len(log) + 1]),
                             i + 1, t, stream, Append(log, i))

RECURSIVE StepLoop(_, _, _, _, _)
\* `for particle in self.particles`, from index i on; a particle that is
\* unassembled on entry to update() takes the next value of the stream
StepLoop(ps, i, t, stream, log) ==
    IF i > Len(ps) THEN [particles |-> ps, draws |-> log]
    ELSE StepLoop(LoopBody(ps, i, t, stream[Len(log) + 1]), i + 1, t, stream,
                  IF ps[i].state = "unassembled" THEN Append(log, i)
                  ELSE log)

\* the parameter sets the constructor is called with
Configs ==
    { [width |-> 1, length |-> 10, k0 |-> One \div 10, alpha |-> 0,
       x_p |-> 3, sigma |-> 1, velocity_mag |-> 1],
      [width |-> 1, length |-> 10, k0 |-> One \div 2, alpha |-> One,
       x_p |-> 3, sigma |-> 1, velocity_mag |-> 1],
      [width |-> 1, length |-> 5, k0 |-> One \div 10, alpha |-> 0,
       x_p |-> 3, sigma |-> 1, velocity_mag |-> 1],
      [width |-> 2, length |-> 12, k0 |-> One \div 10, alpha |-> One,
       x_p |-> 3, sigma |-> 2, velocity_mag |-> 1],
      [width |-> 1, length |-> 10, k0 |-> 0, alpha |-> One,
       x_p |-> 3, sigma |-> 1, velocity_mag |-> 1],
      [width |-> 1, length |-> 10, k0 |-> One \div 10, alpha |-> 0,
       x_p |-> 3, sigma |-> 0, velocity_mag |-> 1],
      [width |-> 0, length |-> -2, k0 |-> One \div 10, alpha |-> 0,
       x_p |-> 3, sigma |-> 1, velocity_mag |-> 1] }

Ns == {0, 1, 2}

Uniform_Beyond(a, b) ==
    {v \in {a, b - 1, b + 1} : min(a, b) <= v /\ v <= max(a, b) + 1}

\* values random.uniform(a, b) returns (b < a allowed, as in Python)
Uniform(a, b) ==
    {v \in {a, b - 1, b} : min(a, b) <= v /\ v <= max(a, b)}

\* values random.random() returns, in [0, 1)
Draws == {0, One \div 2, One - 1}

\* SelfAssemblyModel.__init__
Init ==
    \E c \in Configs :
        /\ N \in Ns
        /\ width = c.width
        /\ length = c.length
        /\ k0 = c.k0
        /\ alpha = c.alpha
        /\ x_p = c.x_p
        /\ sigma = c.sigma
        /\ velocity_mag = c.velocity_mag
        /\ particles \in
             [1..N -> { Particle(x, y, <<vx, vy>>) :
                          x \in Uniform(0, c.length),
                          y \in Uniform(0, c.width),
                          vx \in Uniform(-c.velocity_mag, c.velocity_mag),
                          vy \in Uniform(-c.velocity_mag, c.velocity_mag) }]
        /\ time = 0
        /\ nsteps = 0
        /\ exc = "none"
        /\ draws = <<>>
        /\ probe = <<>>

\* SelfAssemblyModel.step() when correction_factor can be evaluated
StepOk ==
    /\ time < MaxTime
    /\ Len(particles) = 0 \/ sigma # 0
    /\ \E stream \in [1..Len(particles) -> Draws] :
         LET done == StepLoop(particles, 1, NextTime(time), stream, <<>>)
         IN  /\ particles' = done.particles
             /\ draws' = done.draws
    /\ time' = NextTime(time)
    /\ nsteps' = nsteps + 1
    /\ exc' = "none"
    /\ UNCHANGED <<width, length, k0, alpha, x_p, sigma, velocity_mag, N,
                   probe>>

\* SelfAssemblyModel.step() when sigma is 0: the first correction_factor
\* call divides by zero, after time was incremented
StepRaises ==
    /\ time < MaxTime
    /\ Len(particles) > 0 /\ sigma = 0
    /\ time' = NextTime(time)
    /\ nsteps' = nsteps + 1
    /\ exc' = "ZeroDivisionError"
    /\ draws' = <<>>
    /\ UNCHANGED <<width, length, k0, alpha, x_p, sigma, velocity_mag,
                   particles, N, probe>>

Next == StepOk \/ StepRaises

Spec == Init /\ [][Next]_vars

\* ------------------------------------------------- runs without an end
\* a model with at most one particle, which starts on the wall y = 0
InitLive ==
    /\ Init
    /\ N <= 1
    /\ \A i \in 1..N : particles[i].y = 0

\* the step() calls after the MaxTime-th: time is kept at MaxTime, which
\* gives a transformation probability no larger than the real one
StepBeyond ==
    /\ time = MaxTime
    /\ Len(particles) = 0 \/ sigma # 0
    /\ \E stream \in [1..Len(particles) -> Draws] :
         LET done == StepLoop(particles, 1, time, stream, <<>>)
         IN  /\ particles' = done.particles
             /\ draws' = done.draws
    /\ exc' = "none"
    /\ UNCHANGED <<width, length, k0, alpha, x_p, sigma, velocity_mag, N,
                   time, nsteps, probe>>

NextLive == StepOk \/ StepRaises \/ StepBeyond

\* a step in which the particle at index i becomes assembled
Transforming(i) ==
    /\ NextLive
    /\ i \in 1..Len(particles)
    /\ particles[i].state = "unassembled"
    /\ particles'[i].state = "assembled"

\* step() is called again and again, and a draw below P, possible at every
\* step, is not avoided for ever
SpecLive == InitLive /\ [][NextLive]_vars /\ WF_vars(Transforming(1))

\* ------------------------------------- correction_factor called directly
\* parameters of the models correction_factor is called on; x_p and sigma
\* are in sixteenths (x_p = 3.0, 3.5, 2.5; sigma = 1.0, 0.5)
CFConfigs ==
    { [x_p |-> 48, sigma |-> 16, alpha |-> One],
      [x_p |-> 48, sigma |-> 8, alpha |-> One \div 2],
      [x_p |-> 56, sigma |-> 16, alpha |-> One],
      [x_p |-> 40, sigma |-> 16, alpha |-> 0] }

\* the offsets d, in sixteenths: the floats from 0 to 3.0
Ds == {d \in 0..48 : RoundF(d) = d}

\* a constructed model with one resting particle at x_p
InitCF ==
    \E c \in CFConfigs :
        /\ N = 1
        /\ width = 16
        /\ length = 160
        /\ k0 = One \div 10
        /\ alpha = c.alpha
        /\ x_p = c.x_p
        /\ sigma = c.sigma
        /\ velocity_mag = 0
        /\ particles = <<Particle(c.x_p, 0, <<0, 0>>)>>
        /\ time = 0
        /\ nsteps = 0
        /\ exc = "none"
        /\ draws = <<>>
        /\ probe = <<>>

\* the calls correction_factor(x_p), correction_factor(x_p + d) and
\* correction_factor(x_p - d)
Probe ==
    /\ sigma # 0
    /\ \E d \in Ds :
         probe' = [d |-> d,
                   plus |-> FloatAdd(x_p, d),
                   minus |-> FloatSub(x_p, d),
                   at_peak |-> correction_factor(x_p),
                   at_plus |-> correction_factor(FloatAdd(x_p, d)),
                   at_minus |-> correction_factor(FloatSub(x_p, d))]
    /\ UNCHANGED <<width, length, k0, alpha, x_p, sigma, velocity_mag,
                   particles, time, N, nsteps, exc, draws>>

NextCF == Probe

SpecCF == InitCF /\ [][NextCF]_vars

\* ------------------------------------------------------------ properties
Idx == 1..Len(particles)

Abs(a) == IF a < 0 THEN -a ELSE a

\* a step() call that returned normally has just been taken
Stepped == time' # time /\ exc' = "none"

\* C1: in every state, for every particle, state is assembled if and only
\* if transformation_time is set.
C1_StateIffTime ==
    \A i \in Idx :
        (particles[i].state = "assembled")
            <=> (particles[i].transformation_time # None)

C1_Witness ==
    /\ time > 0
    /\ \E i \in Idx : /\ particles[i].state = "assembled"
                      /\ particles[i].transformation_time # None
    /\ \E i \in Idx : /\ particles[i].state = "unassembled"
                      /\ particles[i].transformation_time = None

\* C2: for positive length and width every particle always satisfies
\* 0 <= x <= length and 0 <= y <= width.
C2_InChannel ==
    (length > 0 /\ width > 0) =>
        \A i \in Idx : /\ 0 <= particles[i].x /\ particles[i].x <= length
                       /\ 0 <= particles[i].y /\ particles[i].y <= width

\* C3: an assembled particle is assembled after every later step, and a
\* transformation_time that is set keeps its value.
C3_Monotonic ==
    [][\A i \in Idx :
         /\ particles[i].state = "assembled"
              => particles'[i].state = "assembled"
         /\ particles[i].transformation_time # None
              => particles'[i].transformation_time
                   = particles[i].transformation_time]_vars

C3_Witness ==
    \E i \in Idx : /\ particles[i].state = "assembled"
                   /\ particles[i].transformation_time < time

\* C4: a step leaves every field of a particle that is assembled on entry
\* unchanged.
C4_AssembledNoOp ==
    [][\A i \in Idx :
         particles[i].state = "assembled" => particles'[i] = particles[i]]_vars

C4_Witness ==
    \E i \in Idx : /\ particles[i].state = "assembled"
                   /\ particles[i].velocity[1] # 0
                   /\ particles[i].velocity[2] # 0
                   /\ particles[i].transformation_time + 2 <= time

\* the claimed result of moving coordinate c with velocity v in [0, bound]
Reflected(c, v, bound) ==
    IF c + v < 0 \/ c + v > bound
    THEN <<max(0, min(c + v, bound)), -v>>
    ELSE <<c + v, v>>

\* C5: a particle that moves in a step ends at position + velocity,
\* reflected and clamped per axis against [0, length] and [0, width].
C5_MoveReflects ==
    [][(Stepped /\ length > 0 /\ width > 0) =>
         \A i \in Idx :
            particles'[i].state = "unassembled" =>
               /\ <<particles'[i].x, particles'[i].velocity[1]>>
                    = Reflected(particles[i].x, particles[i].velocity[1],
                                length)
               /\ <<particles'[i].y, particles'[i].velocity[2]>>
                    = Reflected(particles[i].y, particles[i].velocity[2],
                                width)]_vars

\* C6: with k0 = 0 no particle is ever assembled.
C6_NeverAssembles ==
    k0 = 0 =>
        \A i \in Idx : /\ particles[i].state = "unassembled"
                       /\ particles[i].transformation_time = None

C6_Witness ==
    /\ k0 = 0
    /\ time = MaxTime
    /\ Len(particles) > 0

\* C7: the absolute value of each velocity component never changes, and a
\* component changes sign only in a step in which the moved position on
\* that axis is outside [0, length] (x) or [0, width] (y).
C7_VelocityMagnitude ==
    [][(length > 0 /\ width > 0) =>
         \A i \in Idx :
            LET p == particles[i]
                q == particles'[i]
            IN  /\ Abs(q.velocity[1]) = Abs(p.velocity[1])
                /\ Abs(q.velocity[2]) = Abs(p.velocity[2])
                /\ q.velocity[1] # p.velocity[1]
                     => (p.x + p.velocity[1] < 0
                           \/ p.x + p.velocity[1] > length)
                /\ q.velocity[2] # p.velocity[2]
                     => (p.y + p.velocity[2] < 0
                           \/ p.y + p.velocity[2] > width)]_vars

\* C8: time is the number of step() calls made so far.
C8_TimeCounts == time = nsteps

C8_Witness == nsteps = MaxTime

\* C9: a particle that becomes assembled in a step has the same x, y and
\* velocity after the step as before it.
C9_TransformSkipsMotion ==
    [][\A i \in Idx :
         (particles[i].state = "unassembled"
            /\ particles'[i].state = "assembled")
         => /\ particles'[i].x = particles[i].x
            /\ particles'[i].y = particles[i].y
            /\ particles'[i].velocity = particles[i].velocity]_vars

C9_Witness ==
    \E i \in Idx : /\ particles[i].transformation_time = time
                   /\ particles[i].velocity[1] # 0
                   /\ time >= 2

\* C10: on a model with sigma = 0, length <= 0 or width <= 0 no step()
\* ever runs, and no step() reaches the division by zero.
C10_FailsFast ==
    /\ (sigma = 0 \/ length <= 0 \/ width <= 0) => nsteps = 0
    /\ exc # "ZeroDivisionError"

\* the orders in which the loop of step() could visit the particles
Orders == {o \in [Idx -> Idx] : \A i \in Idx : \E j \in Idx : o[j] = i}

RECURSIVE VisitIn(_, _, _, _, _)
\* the loop of step() visiting the particles in the order o, from its j-th
\* element on, the particle at index i being given the draw rs[i]
VisitIn(ps, o, j, t, rs) ==
    IF j > Len(ps) THEN ps
    ELSE VisitIn(LoopBody(ps, o[j], t, rs[o[j]]), o, j + 1, t, rs)

\* C12: with the draw of each particle fixed, a step that visits the
\* particles in any order leaves every particle as the step that visits
\* them in list order does (sigma # 0, so that correction_factor returns).
C12_OrderIndependent ==
    sigma # 0 =>
        \A rs \in [Idx -> Draws] :
            LET inListOrder ==
                    VisitIn(particles, [i \in Idx |-> i], 1, NextTime(time), rs)
            IN  \A o \in Orders :
                    VisitIn(particles, o, 1, NextTime(time), rs) = inListOrder

C12_Witness ==
    /\ Len(particles) = 2
    /\ sigma # 0
    /\ time >= 1
    /\ particles[1].state = "unassembled"
    /\ particles[2].state = "unassembled"
    /\ particles[1].x # particles[2].x
    /\ particles[1].velocity[1] # 0

\* C13: the model always holds exactly N particles; right after
\* construction (with the documented length > 0, width > 0 and
\* velocity_mag >= 0) each is unassembled with no transformation_time,
\* inside the channel and with velocity components within velocity_mag;
\* a step neither adds nor removes a particle.
C13_Population ==
    /\ Len(particles) = N
    /\ (nsteps = 0 /\ length > 0 /\ width > 0 /\ velocity_mag >= 0) =>
         \A i \in Idx :
            /\ particles[i].state = "unassembled"
            /\ particles[i].transformation_time = None
            /\ 0 <= particles[i].x /\ particles[i].x <= length
            /\ 0 <= particles[i].y /\ particles[i].y <= width
            /\ -velocity_mag <= particles[i].velocity[1]
            /\ particles[i].velocity[1] <= velocity_mag
            /\ -velocity_mag <= particles[i].velocity[2]
            /\ particles[i].velocity[2] <= velocity_mag

C13_Witness ==
    /\ N = 2
    /\ time = MaxTime
    /\ length > 0 /\ width > 0
    /\ \E i \in Idx : particles[i].state = "assembled"
    /\ \E i \in Idx : particles[i].state = "unassembled"

\* correction_factor has been called directly
Probed == probe # <<>>

\* C14 as stated: correction_factor(x_p) = 1 + alpha, and
\* correction_factor(x_p + d) = correction_factor(x_p - d) for every d.
C14_Symmetric ==
    Probed => /\ probe.at_peak = One + alpha
              /\ probe.at_plus = probe.at_minus

\* C14: correction_factor(x_p) = 1 + alpha, and correction_factor(x_p + d)
\* = correction_factor(x_p - d) for every d whose sums x_p + d and x_p - d
\* are at the same distance from x_p; the calls change no model or
\* particle state.
C14_SymmetricWhenExact ==
    /\ [](Probed =>
            /\ probe.at_peak = One + alpha
            /\ (probe.plus - x_p = x_p - probe.minus)
                 => probe.at_plus = probe.at_minus)
    /\ [][probe' # probe =>
            UNCHANGED <<width, length, k0, alpha, x_p, sigma, velocity_mag,
                        particles, time>>]_vars

C14_Witness ==
    /\ Probed
    /\ probe.d > 0
    /\ probe.plus - x_p = probe.d
    /\ x_p - probe.minus = probe.d
    /\ alpha > 0
    /\ probe.at_plus < probe.at_peak
    /\ probe.at_plus > One

\* C15: a step() that returns has incremented time by 1 and has applied
\* update once to every particle, with the new time, k0 and the correction
\* factor of the particle's x at the start of the step.
C15_StepUpdatesAll ==
    [][Stepped =>
         /\ time' = time + 1
         /\ \E rs \in [Idx -> Draws] :
              particles' = [i \in Idx |->
                              Update(particles[i], time', k0,
                                     correction_factor(particles[i].x),
                                     rs[i])]]_vars

C15_Witness ==
    /\ Len(particles) = 2
    /\ exc = "none"
    /\ time >= 2
    /\ \E i \in Idx : particles[i].transformation_time = time
    /\ \E i \in Idx : /\ particles[i].state = "unassembled"
                      /\ particles[i].velocity[1] # 0

AllAssembled == \A i \in Idx : particles[i].state = "assembled"

\* the loop of step() runs to its end on the current particles: for some
\* random stream it yields one updated particle per particle
LoopRuns ==
    \E stream \in [Idx -> Draws] :
        LET done == StepLoop(particles, 1, NextTime(time), stream, <<>>)
        IN  /\ Len(done.particles) = Len(particles)
            /\ \A i \in Idx :
                 done.particles[i].state \in {"unassembled", "assembled"}

\* C16: step() can be called in every state (below the model's MaxTime):
\* its loop runs to the end or, with sigma = 0, raises; and a step() taken
\* when every particle is assembled is possible, adds 1 to time and leaves
\* every particle unchanged.
C16_NeverStops ==
    /\ time < MaxTime =>
         \/ (Len(particles) = 0 \/ sigma # 0) /\ LoopRuns
         \/ ENABLED StepRaises
    /\ (time < MaxTime /\ AllAssembled) => ENABLED Next
    /\ AllAssembled =>
         ~ ENABLED (Next /\ (time' # time + 1 \/ particles' # particles))

C16_Witness ==
    /\ Len(particles) = 2
    /\ AllAssembled
    /\ \A i \in Idx : particles[i].transformation_time < time
    /\ \E i \in Idx : particles[i].velocity[1] # 0

\* C17: a transformation_time that is set is the time of the step that set
\* it, so 1 <= transformation_time <= time, and no particle is assembled
\* while time = 0.
C17_TransformationTime ==
    /\ [](\A i \in Idx :
            /\ particles[i].transformation_time # None
                 => (1 <= particles[i].transformation_time
                       /\ particles[i].transformation_time <= time)
            /\ time = 0 => particles[i].state = "unassembled")
    /\ [][\A i \in Idx :
            (particles[i].transformation_time = None
               /\ particles'[i].transformation_time # None)
            => particles'[i].transformation_time = time']_vars

C17_Witness ==
    /\ \E i \in Idx : particles[i].transformation_time = 1
    /\ \E i \in Idx : particles[i].transformation_time = time
    /\ time >= 2

RECURSIVE UnassembledFrom(_)
\* the indices from i on of the unassembled particles, in list order
UnassembledFrom(i) ==
    IF i > Len(particles) THEN <<>>
    ELSE (IF particles[i].state = "unassembled" THEN <<i>> ELSE <<>>)
            \o UnassembledFrom(i + 1)

\* C18: in a step() that returns, the random values are taken by exactly
\* the particles that are unassembled at the start of the step, one each,
\* in list order.
C18_DrawsPerStep ==
    [][Stepped =>
         /\ draws' = UnassembledFrom(1)
         /\ Len(draws') =
              Cardinality({i \in Idx : particles[i].state = "unassembled"})]_vars

C18_Witness ==
    /\ Len(particles) = 2
    /\ exc = "none"
    /\ time >= 2
    /\ draws = <<2>>

====
